---- MODULE Spec2Model ----
(***************************************************************************)
(* Generic repository / service layer over one document collection        *)
(* (src/src/repository.py, src/src/service.py, src/src/models.py).         *)
(*                                                                         *)
(* The collection is a sequence of documents in store (insertion) order.   *)
(* A document, a model instance, a request and a filter are all mappings   *)
(* from field names to values (TLA+ functions with string domains).        *)
(* The entity class bound to the repository is a DbModel subclass with two *)
(* optional fields, email and name, both defaulting to None.               *)
(*                                                                         *)
(* Every method is a coroutine: it gives up control at each await, so a    *)
(* method that awaits the store more than once is one step per await, and  *)
(* the steps of two coroutines interleave.                                 *)
(***************************************************************************)
EXTENDS Integers, Sequences, FiniteSets, TLC

\* ---- bounds of the model ------------------------------------------------
MaxOid == 2        \* ObjectIds the store hands out to the service's creates
MaxRepoOid == 3    \* ObjectIds the store hands out to direct repository creates
MaxClock == 1      \* readings of datetime.utcnow(): 0..MaxClock
MaxRecursion == 2  \* interpreter recursion limit, in nested Service.delete calls
MaxSize == 2       \* list(): size ranges over 1..MaxSize
MaxPage == 2       \* list(): page ranges over 1..MaxPage
MaxCount == 11     \* PaginationModel: total_count ranges over 0..MaxCount
MaxPageSize == 5   \* PaginationModel: size ranges over 0..MaxPageSize
MaxNested == 2     \* array elements stored in the collection at one time

\* ---- values ---------------------------------------------------------------
None == "None"                 \* Python None as a field value
Absent == [absent |-> TRUE]    \* Python None returned in place of an object
Emails == {"a", "b"}
Names == {"x"}
Fields == {"email", "name"}    \* the fields the entity subclass declares
Oids == 1..MaxRepoOid
ServiceOids == 1..MaxOid
FreshOid == 0                  \* an ObjectId made by a default factory, never stored

VARIABLES
    collection,     \* the documents of the collection, in store order
    next_oid,       \* the next ObjectId insert_one assigns
    clock,          \* the current reading of datetime.utcnow()
    unique_fields,  \* BaseService.unique_fields of the running service
    page_model,     \* the last PaginationModel built
    tasks           \* per coroutine: the call it is in (the await it is
                    \* suspended at, its locals) or the call that returned last

vars == <<collection, next_oid, clock, unique_fields, page_model, tasks>>

\* ---- mappings -------------------------------------------------------------
FieldValues(k) == IF k = "email" THEN Emails ELSE Names

\* every mapping that sets exactly the fields S
DictsOver(S) == {d \in [S -> Emails \cup Names] : \A k \in S : d[k] \in FieldValues(k)}

\* every mapping that sets some of the declared fields
Dicts == UNION {DictsOver(S) : S \in SUBSET Fields}

EmptyDict == [k \in {} |-> None]

\* dict d1 overlaid with d2: {**d1, **d2}
Merge(d1, d2) ==
    [k \in (DOMAIN d1) \cup (DOMAIN d2) |-> IF k \in DOMAIN d2 THEN d2[k] ELSE d1[k]]

\* ---- pydantic models ------------------------------------------------------
ModelFields == {"id", "created_at", "updated_at"} \cup Fields

\* model_klass(**d) built at time t: "_id" populates id (alias), a missing id
\* and a missing created_at take their default factories, every other missing
\* field takes None
model_klass(d, t) ==
    [k \in ModelFields |->
        IF k = "id"
        THEN IF "_id" \in DOMAIN d THEN d["_id"]
             ELSE IF "id" \in DOMAIN d THEN d["id"] ELSE FreshOid
        ELSE IF k \in DOMAIN d THEN d[k]
        ELSE IF k = "created_at" THEN t
        ELSE None]

\* model_instance.dict(exclude={"id"})
dict_exclude_id(m) == [k \in (DOMAIN m) \ {"id"} |-> m[k]]

\* getattr(request_instance, key) on a request whose unset fields default to None
getattr(inst, key) == IF key \in DOMAIN inst THEN inst[key] ELSE None

\* request_instance.dict(): every declared field, unset ones at their default
request_dict(inst) == [k \in Fields |-> getattr(inst, k)]

\* request_instance.dict(exclude_unset=True): only the fields explicitly set
request_dict_exclude_unset(inst) == inst

\* ---- the document store ---------------------------------------------------
\* a document matches a filter when every filter key has the filter's value
Matches(doc, filter) == \A k \in DOMAIN filter : doc[k] = filter[k]

MatchIndexes(coll, filter) == {i \in 1..Len(coll) : Matches(coll[i], filter)}

FirstMatch(coll, filter) ==
    CHOOSE i \in MatchIndexes(coll, filter) : \A j \in MatchIndexes(coll, filter) : i <= j

\* collection.find(filter): the matching documents in store order
find(coll, filter) == SelectSeq(coll, LAMBDA doc : Matches(doc, filter))

\* collection.count_documents(filter)
count_documents(coll, filter) == Cardinality(MatchIndexes(coll, filter))

\* collection.find_one(filter): the first matching document or None
find_one(coll, filter) ==
    IF MatchIndexes(coll, filter) = {} THEN Absent ELSE coll[FirstMatch(coll, filter)]

\* an insert under a unique index on email: a duplicate is not stored
insert_one_unique_index(coll, doc, oid) ==
    IF \E i \in 1..Len(coll) : coll[i].email = doc.email
    THEN coll
    ELSE Append(coll, Merge([_id |-> oid], doc))

\* collection.insert_one(doc): the store assigns _id to a document without one
insert_one(coll, doc, oid) == Append(coll, Merge([_id |-> oid], doc))

\* collection.update_one(filter, {"$set": fields})
update_one(coll, filter, fields) ==
    IF MatchIndexes(coll, filter) = {} THEN coll
    ELSE [coll EXCEPT ![FirstMatch(coll, filter)] = Merge(@, fields)]

\* collection.delete_one(filter): the collection left
delete_one(coll, filter) ==
    IF MatchIndexes(coll, filter) = {} THEN coll
    ELSE SubSeq(coll, 1, FirstMatch(coll, filter) - 1)
         \o SubSeq(coll, FirstMatch(coll, filter) + 1, Len(coll))

\* collection.delete_one(filter).deleted_count
deleted_count(coll, filter) == IF MatchIndexes(coll, filter) = {} THEN 0 ELSE 1

\* cursor.skip(n)
skip(docs, n) == SubSeq(docs, n + 1, Len(docs))

\* cursor.limit(n).to_list(length=n)
limit(docs, n) == SubSeq(docs, 1, IF Len(docs) < n THEN Len(docs) ELSE n)

\* [self.model_klass(**result) for result in db_results]
model_list(db_results) == [i \in 1..Len(db_results) |-> model_klass(db_results[i], 0)]

\* truth value of "if x:" on an object-or-None
truthy(x) == x # Absent

\* ---- BaseRepository ------------------------------------------------------
\* BaseRepository.get(id_)
Repository_get(coll, id) ==
    LET db_result == find_one(coll, [_id |-> id])
    IN  IF truthy(db_result) THEN model_klass(db_result, 0) ELSE Absent

\* BaseRepository.search(many=False, **filter_kwargs)
Repository_search(coll, filter) ==
    LET db_result == find_one(coll, filter)
    IN  IF truthy(db_result) THEN model_klass(db_result, 0) ELSE Absent

\* BaseRepository.count(**filter_kwargs)
Repository_count(coll, filter) == count_documents(coll, filter)

skip_count_conventional(size, page) == size * (page - 1)

\* the number of matches list() skips on a page other than the first
skip_count(size, page) == size * page

\* BaseRepository.list, size and page both given and positive: what the cursor
\* of find(filter_kwargs) yields when to_list is awaited, as model instances
list_page(coll, size, page, filter) ==
    LET db_results == find(coll, filter)
    IN  model_list(IF page = 1
                   THEN limit(db_results, size)
                   ELSE limit(skip(db_results, skip_count(size, page)), size))

deleted_result_nonnegative(n) == n >= 0

\* "result.deleted_count > 0"
deleted_result(n) == n > 0

\* BaseRepository.delete(id_)
Repository_delete(coll, id) ==
    [coll |-> delete_one(coll, [_id |-> id]),
     ret |-> deleted_result(deleted_count(coll, [_id |-> id]))]

\* ---- BaseService ---------------------------------------------------------
\* data_response_klass(**db_result.dict())
data_response_klass(db_result) == db_result

\* the uniqueness filter: the declared unique fields at the request's values
unique_filter(inst, uf) == [key \in uf |-> getattr(inst, key)]

\* BaseService.get(id_)
Service_get(coll, id) ==
    LET db_result == Repository_get(coll, id)
    IN  IF db_result = Absent
        THEN [out |-> "NotFound", val |-> Absent]
        ELSE [out |-> "ok", val |-> data_response_klass(db_result)]

Service_search_no_raise(coll, filter) ==
    [out |-> "ok", val |-> Repository_search(coll, filter)]

\* BaseService.search(many=False, **filter_kwargs)
Service_search(coll, filter) ==
    LET db_result == Repository_search(coll, filter)
    IN  IF db_result = Absent
        THEN [out |-> "NotFound", val |-> Absent]
        ELSE [out |-> "ok", val |-> data_response_klass(db_result)]

create_conflict_never(searched_object) == FALSE

\* the pre-check of create: "if await self.repository.search(**filter_kwargs)"
create_conflict(searched_object) == truthy(searched_object)

update_conflict_any_match(searched_object, id) == truthy(searched_object)

\* the re-check of update:
\* "if not (searched_object and searched_object.id == id_)"
update_conflict(searched_object, id) ==
    ~(truthy(searched_object) /\ searched_object.id = id)

\* ---- PaginationModel -----------------------------------------------------
paginate_always_round_up(total_count, size) ==
    IF total_count = 0 THEN 0
    ELSE IF total_count <= size THEN 1
    ELSE (total_count \div size) + 1

\* the root validator paginate(): total_pages from total_count and size
paginate(total_count, size) ==
    IF total_count = 0 THEN 0
    ELSE IF total_count <= size THEN 1
    ELSE IF (total_count % size) = 0 THEN total_count \div size
    ELSE (total_count \div size) + 1

\* ---- BaseRepository: nested documents ------------------------------------
\* the array field the nested operations are called on
NestedField == "items"
NestedIds == {1, 2}
NestedVals == {"p", "q"}

\* the raw element data nested_create is called with: a dict carrying its own
\* identity, a value and a note
NestedData == {[_id |-> n, val |-> v, note |-> "n"] : n \in NestedIds, v \in NestedVals}

\* the field updates nested_update is called with
NestedUpdates == {[val |-> v] : v \in NestedVals}

\* nested_model_class(**doc) built at time t
nested_model_class(doc, t) ==
    [id |-> doc._id, created_at |-> t, updated_at |-> None,
     val |-> doc.val, note |-> doc.note]

\* the array a document holds in a field; a missing field unwinds to nothing
array_of(doc, field) == IF field \in DOMAIN doc THEN doc[field] ELSE <<>>

\* positions of the elements of an array with identity nested_doc_id
element_indexes(array, nested_doc_id) ==
    {j \in 1..Len(array) : array[j]._id = nested_doc_id}

\* position of the first of them: the element the positional operator $ names
first_element(array, nested_doc_id) ==
    CHOOSE j \in element_indexes(array, nested_doc_id) :
        \A k \in element_indexes(array, nested_doc_id) : j <= k

\* the filter {"_id": main_doc_id, **filter_, f"{field}._id": nested_doc_id}
nested_match_indexes(coll, main_doc_id, filter_, field, nested_doc_id) ==
    {i \in 1..Len(coll) :
        /\ coll[i]._id = main_doc_id
        /\ Matches(coll[i], filter_)
        /\ element_indexes(array_of(coll[i], field), nested_doc_id) # {}}

\* the projection {field: {"$elemMatch": {"_id": nested_doc_id}}} of a document:
\* its _id and, when an element matches, the field holding the first match alone
elem_match_projection(doc, field, nested_doc_id) ==
    IF element_indexes(array_of(doc, field), nested_doc_id) = {}
    THEN [_id |-> doc._id]
    ELSE Merge([_id |-> doc._id],
               [k \in {field} |->
                   <<doc[field][first_element(doc[field], nested_doc_id)]>>])

\* {"$pull": {field: {"_id": nested_doc_id}}} on a document: every element
\* with that identity leaves the array
pull(doc, field, nested_doc_id) ==
    IF field \in DOMAIN doc
    THEN [doc EXCEPT ![field] = SelectSeq(@, LAMBDA e : e._id # nested_doc_id)]
    ELSE doc

\* {"$push": {field: data}} on a document: the field is created when missing
push(doc, field, data) ==
    Merge(doc, [k \in {field} |-> Append(array_of(doc, field), data)])

set_every_match(doc, field, nested_doc_id, update) ==
    [doc EXCEPT ![field] =
        [j \in 1..Len(@) |->
            IF @[j]._id = nested_doc_id THEN Merge(@[j], update) ELSE @[j]]]

\* {"$set": {f"{field}.$.{k}": v}} on a document whose array holds a match
set_positional(doc, field, nested_doc_id, update) ==
    [doc EXCEPT ![field] =
        [@ EXCEPT ![first_element(@, nested_doc_id)] = Merge(@, update)]]

\* the first matching document of the collection, or the position 0
first_index(indexes) ==
    IF indexes = {} THEN 0 ELSE CHOOSE i \in indexes : \A j \in indexes : i <= j

\* the value nested_remove returns: "removed_doc is None"
removed_result(removed_doc) == removed_doc = Absent

\* BaseRepository.nested_remove(main_doc_id, nested_doc_id, filter_, field):
\* find_one_and_update with $pull returns the document after the update, or
\* None when the filter matches no document
nested_remove(coll, main_doc_id, nested_doc_id, filter_, field) ==
    LET i == first_index(nested_match_indexes(coll, main_doc_id, filter_, field,
                                              nested_doc_id))
        after == IF i = 0 THEN coll
                 ELSE [coll EXCEPT ![i] = pull(@, field, nested_doc_id)]
        removed_doc == IF i = 0 THEN Absent
                       ELSE elem_match_projection(after[i], field, nested_doc_id)
    IN  [coll |-> after, ret |-> removed_result(removed_doc)]

\* BaseRepository.nested_update(main_doc_id, nested_doc_id, field, update,
\* nested_model_class, filter_, upsert=False) at time t
nested_update(coll, main_doc_id, nested_doc_id, field, update, filter_, t) ==
    LET i == first_index(nested_match_indexes(coll, main_doc_id, filter_, field,
                                              nested_doc_id))
        after == IF i = 0 THEN coll
                 ELSE [coll EXCEPT ![i] = set_positional(@, field, nested_doc_id, update)]
        updated_doc == IF i = 0 THEN Absent
                       ELSE elem_match_projection(after[i], field, nested_doc_id)
    IN  IF updated_doc = Absent
        THEN [coll |-> after, ret |-> Absent]
        ELSE IF element_indexes(array_of(updated_doc, field), nested_doc_id) = {}
        THEN [coll |-> after, ret |-> Absent]
        ELSE [coll |-> after,
              ret |-> nested_model_class(
                          updated_doc[field][first_element(updated_doc[field],
                                                           nested_doc_id)], t)]

\* BaseRepository.nested_create(main_doc_id, field, data, nested_model_class)
\* at time t, data a dict
nested_create(coll, main_doc_id, field, data, t) ==
    LET i == first_index(MatchIndexes(coll, [_id |-> main_doc_id]))
    IN  IF i = 0
        THEN [coll |-> coll, ret |-> Absent]
        ELSE [coll |-> [coll EXCEPT ![i] = push(@, field, data)],
              ret |-> nested_model_class(data, t)]

\* the pipeline $match {_id}, $unwind field, optional $limit, $group by _id:
\* the result documents, none when the parent or its elements are missing
aggregate_unwind_group(coll, main_doc_id, field, limit_) ==
    LET i == first_index(MatchIndexes(coll, [_id |-> main_doc_id]))
        unwound == IF i = 0 THEN <<>> ELSE array_of(coll[i], field)
        limited == IF limit_ # 0 THEN limit(unwound, limit_) ELSE unwound
    IN  IF Len(limited) = 0 THEN <<>>
        ELSE <<Merge([_id |-> main_doc_id, count |-> Len(limited)],
                     [k \in {field} |-> limited])>>

\* "await cursor.next()": the next result document; an exhausted cursor
\* raises StopAsyncIteration
cursor_next(results) ==
    IF Len(results) = 0
    THEN [out |-> "StopAsyncIteration", val |-> Absent]
    ELSE [out |-> "ok", val |-> results[1]]

\* BaseRepository.nested_list(main_doc_id, field, nested_model_class,
\* sort=None, limit) at time t; limit 0 stands for no limit
nested_list(coll, main_doc_id, field, limit_, t) ==
    LET result == cursor_next(aggregate_unwind_group(coll, main_doc_id, field, limit_))
    IN  IF result.out # "ok" THEN [out |-> result.out, val |-> <<>>]
        ELSE IF result.val = Absent THEN [out |-> "ok", val |-> <<>>]
        ELSE [out |-> "ok",
              val |-> [j \in 1..Len(result.val[field]) |->
                          nested_model_class(result.val[field][j], t)]]

\* BaseRepository.nested_count(main_doc_id, field)
nested_count(coll, main_doc_id, field) ==
    LET result == cursor_next(aggregate_unwind_group(coll, main_doc_id, field, 0))
    IN  IF result.out # "ok" THEN [out |-> result.out, val |-> 0]
        ELSE IF result.val = Absent THEN [out |-> "ok", val |-> 0]
        ELSE [out |-> "ok", val |-> result.val.count]

\* ---- state machine -------------------------------------------------------
UniqueFieldSets == {{}, {"email"}}

\* requests of create: email is required, name is optional
CreateRequests == {d \in Dicts : "email" \in DOMAIN d}

\* requests of update: every field is optional
UpdateRequests == Dicts

\* the filters read operations are called with
Filters == Dicts

Sizes == 1..MaxSize
Pages == 1..MaxPage

\* the coroutines the event loop runs side by side; each makes one call at a
\* time and awaits its return before the next
Tasks == {1, 2}

\* a single caller: one call after another
Sequential == {1}

\* a coroutine that has made no call: no locals
IdleTask == [pc |-> "idle", op |-> "none", id |-> 0, arg |-> EmptyDict,
             out |-> "none", val |-> Absent,
             model_instance |-> Absent, inserted_id |-> 0, depth |-> 0,
             total_count |-> 0, before |-> <<>>]

\* a call that has returned (or raised): operation, arguments, outcome, value
Call(op, id, arg, out, val) ==
    [IdleTask EXCEPT !.pc = "done", !.op = op, !.id = id, !.arg = arg,
                     !.out = out, !.val = val]

\* a call suspended at the await pc; before keeps the collection as it was
\* when the call was made
Pending(op, id, arg, pc, coll) ==
    [IdleTask EXCEPT !.pc = pc, !.op = op, !.id = id, !.arg = arg,
                     !.out = "pending", !.before = coll]

NoPage == [total_count |-> 0, size |-> 0, page |-> 0, given |-> 0, total_pages |-> 0,
           out |-> "none"]

Init ==
    /\ collection = <<>>
    /\ next_oid = 1
    /\ clock = 0
    /\ unique_fields \in UniqueFieldSets
    /\ page_model = NoPage
    /\ tasks = [t \in Tasks |-> IdleTask]

\* coroutine t is not inside a call
Ready(t) == tasks[t].pc \in {"idle", "done"}

\* coroutine t is suspended at the await pc
At(t, pc) == tasks[t].pc = pc

\* the call of coroutine t returns val, or raises out
Return(t, out, val) ==
    tasks' = [tasks EXCEPT ![t] = Call(@.op, @.id, @.arg, out, val)]

\* the call of coroutine t goes on to its next await
Goto(t, pc) == tasks' = [tasks EXCEPT ![t] = [@ EXCEPT !.pc = pc]]

\* time passes
Tick ==
    /\ clock < MaxClock
    /\ clock' = clock + 1
    /\ UNCHANGED <<collection, next_oid, unique_fields, tasks, page_model>>

\* ---- BaseService.create / BaseRepository.create: one step per await --------
\* the call is made: "db_model_instance = self.model_klass(**request_instance.dict())",
\* then "if self.unique_fields" leads to the pre-check or straight to the insert
CallServiceCreate(t) ==
    /\ Ready(t)
    /\ \E request_instance \in CreateRequests :
         tasks' = [tasks EXCEPT ![t] =
                     [Pending("Service.create", 0, request_instance,
                              IF unique_fields # {} THEN "create.search"
                              ELSE "create.insert_one", collection)
                        EXCEPT !.model_instance =
                                   model_klass(request_dict(request_instance), clock)]]
    /\ UNCHANGED <<collection, next_oid, clock, unique_fields, page_model>>

\* "if await self.repository.search(**filter_kwargs): raise BadRequest"
ServiceCreate_search(t) ==
    /\ At(t, "create.search")
    /\ \E searched_object \in
            {Repository_search(collection, unique_filter(tasks[t].arg, unique_fields))} :
         IF create_conflict(searched_object)
         THEN Return(t, "BadRequest", Absent)
         ELSE Goto(t, "create.insert_one")
    /\ UNCHANGED <<collection, next_oid, clock, unique_fields, page_model>>

\* Repository.create called directly with a model instance built from a request
CallRepositoryCreate(t) ==
    /\ Ready(t)
    /\ \E request_instance \in CreateRequests :
         tasks' = [tasks EXCEPT ![t] =
                     [Pending("Repository.create", 0, request_instance,
                              "create.insert_one", collection)
                        EXCEPT !.model_instance =
                                   model_klass(request_dict(request_instance), clock)]]
    /\ UNCHANGED <<collection, next_oid, clock, unique_fields, page_model>>

\* BaseRepository.create: "db_insert = await self.collection.insert_one(...)"
RepositoryCreate_insert_one(t) ==
    /\ At(t, "create.insert_one")
    /\ next_oid <= (IF tasks[t].op = "Service.create" THEN MaxOid ELSE MaxRepoOid)
    /\ collection' = insert_one(collection,
                                dict_exclude_id(tasks[t].model_instance), next_oid)
    /\ next_oid' = next_oid + 1
    /\ tasks' = [tasks EXCEPT ![t] =
                    [@ EXCEPT !.pc = "create.get", !.inserted_id = next_oid]]
    /\ UNCHANGED <<clock, unique_fields, page_model>>

\* BaseRepository.create: "db_result = await self.get(db_insert.inserted_id)",
\* returned as it is; BaseService.create goes on with
\* "self.data_response_klass(**db_result.dict())", an AttributeError on None
RepositoryCreate_get(t) ==
    /\ At(t, "create.get")
    /\ \E db_result \in {Repository_get(collection, tasks[t].inserted_id)} :
         IF tasks[t].op = "Service.create"
         THEN IF truthy(db_result)
              THEN Return(t, "ok", data_response_klass(db_result))
              ELSE Return(t, "AttributeError", Absent)
         ELSE Return(t, "ok", db_result)
    /\ UNCHANGED <<collection, next_oid, clock, unique_fields, page_model>>

\* ---- BaseService.update / BaseRepository.update -----------------------------
CallServiceUpdate(t) ==
    /\ Ready(t)
    /\ \E id \in ServiceOids, update_instance \in UpdateRequests :
         tasks' = [tasks EXCEPT ![t] =
                     Pending("Service.update", id, update_instance, "update.get",
                             collection)]
    /\ UNCHANGED <<collection, next_oid, clock, unique_fields, page_model>>

\* "if not await self.repository.get(id_): raise NotFoundException"; without
\* unique fields the method goes on to
\* "self.model_klass(**update_instance.dict(exclude_unset=True))"
ServiceUpdate_get(t) ==
    /\ At(t, "update.get")
    /\ \E db_result \in {Repository_get(collection, tasks[t].id)} :
         IF ~truthy(db_result)
         THEN Return(t, "NotFound", Absent)
         ELSE IF unique_fields # {}
         THEN Goto(t, "update.search")
         ELSE tasks' = [tasks EXCEPT ![t] =
                          [@ EXCEPT !.pc = "update.update_one",
                                    !.model_instance =
                                        model_klass(request_dict_exclude_unset(tasks[t].arg),
                                                    clock)]]
    /\ UNCHANGED <<collection, next_oid, clock, unique_fields, page_model>>

\* "searched_object = await self.repository.search(**filter_kwargs)", the
\* re-check, then "self.model_klass(**update_instance.dict(exclude_unset=True))"
ServiceUpdate_search(t) ==
    /\ At(t, "update.search")
    /\ \E searched_object \in
            {Repository_search(collection, unique_filter(tasks[t].arg, unique_fields))} :
         IF update_conflict(searched_object, tasks[t].id)
         THEN Return(t, "BadRequest", Absent)
         ELSE tasks' = [tasks EXCEPT ![t] =
                          [@ EXCEPT !.pc = "update.update_one",
                                    !.model_instance =
                                        model_klass(request_dict_exclude_unset(tasks[t].arg),
                                                    clock)]]
    /\ UNCHANGED <<collection, next_oid, clock, unique_fields, page_model>>

\* Repository.update called directly with a model instance built from a request
CallRepositoryUpdate(t) ==
    /\ Ready(t)
    /\ \E id \in Oids, request_instance \in CreateRequests :
         tasks' = [tasks EXCEPT ![t] =
                     [Pending("Repository.update", id, request_instance,
                              "update.update_one", collection)
                        EXCEPT !.model_instance =
                                   model_klass(request_dict(request_instance), clock)]]
    /\ UNCHANGED <<collection, next_oid, clock, unique_fields, page_model>>

\* BaseRepository.update: "await self.collection.update_one({"_id": id_},
\* {"$set": model_instance.dict(exclude={"id"})})"
RepositoryUpdate_update_one(t) ==
    /\ At(t, "update.update_one")
    /\ collection' = update_one(collection, [_id |-> tasks[t].id],
                                dict_exclude_id(tasks[t].model_instance))
    /\ Goto(t, "update.reget")
    /\ UNCHANGED <<next_oid, clock, unique_fields, page_model>>

\* BaseRepository.update: "db_result = await self.get(id_)", returned as it
\* is; BaseService.update goes on with
\* "self.data_response_klass(**db_result.dict())", an AttributeError on None
RepositoryUpdate_get(t) ==
    /\ At(t, "update.reget")
    /\ \E db_result \in {Repository_get(collection, tasks[t].id)} :
         IF tasks[t].op = "Service.update"
         THEN IF truthy(db_result)
              THEN Return(t, "ok", data_response_klass(db_result))
              ELSE Return(t, "AttributeError", Absent)
         ELSE Return(t, "ok", db_result)
    /\ UNCHANGED <<collection, next_oid, clock, unique_fields, page_model>>

\* ---- BaseService.delete ---------------------------------------------------
CallServiceDelete(t) ==
    /\ Ready(t)
    /\ \E id \in ServiceOids :
         tasks' = [tasks EXCEPT ![t] =
                     Pending("Service.delete", id, EmptyDict, "delete.get", collection)]
    /\ UNCHANGED <<collection, next_oid, clock, unique_fields, page_model>>

\* "if not await self.repository.get(id_): raise NotFoundException", then
\* "await self.delete(id_)": the method calls itself, so the existence check
\* is awaited once more, one level deeper, until the interpreter's recursion
\* limit ends the calls with RecursionError
ServiceDelete_get(t) ==
    /\ At(t, "delete.get")
    /\ \E db_result \in {Repository_get(collection, tasks[t].id)} :
         IF ~truthy(db_result)
         THEN Return(t, "NotFound", Absent)
         ELSE IF tasks[t].depth >= MaxRecursion
         THEN Return(t, "RecursionError", Absent)
         ELSE tasks' = [tasks EXCEPT ![t] = [@ EXCEPT !.depth = @ + 1]]
    /\ UNCHANGED <<collection, next_oid, clock, unique_fields, page_model>>

\* ---- BaseRepository.list ----------------------------------------------------
\* size and page both given and positive, so that "if size and page" holds
CallRepositoryList(t) ==
    /\ Ready(t)
    /\ \E size \in Sizes, page \in Pages, filter \in Filters :
         tasks' = [tasks EXCEPT ![t] =
                     Pending("Repository.list", 0,
                             [size |-> size, page |-> page, filter |-> filter],
                             "list.count_documents", collection)]
    /\ UNCHANGED <<collection, next_oid, clock, unique_fields, page_model>>

\* "total_count = await self.collection.count_documents(filter_kwargs)"
RepositoryList_count_documents(t) ==
    /\ At(t, "list.count_documents")
    /\ tasks' = [tasks EXCEPT ![t] =
                    [@ EXCEPT !.pc = "list.to_list",
                              !.total_count = count_documents(collection,
                                                             tasks[t].arg.filter)]]
    /\ UNCHANGED <<collection, next_oid, clock, unique_fields, page_model>>

\* "db_results = await db_results[.skip(size * page)].limit(size).to_list(...)",
\* then "return total_count, objects"
RepositoryList_to_list(t) ==
    /\ At(t, "list.to_list")
    /\ Return(t, "ok",
              [total_count |-> tasks[t].total_count,
               objects |-> list_page(collection, tasks[t].arg.size, tasks[t].arg.page,
                                     tasks[t].arg.filter)])
    /\ UNCHANGED <<collection, next_oid, clock, unique_fields, page_model>>

\* ---- the methods with a single await ------------------------------------------
CallServiceGet(t) ==
    /\ Ready(t)
    /\ \E id \in Oids :
        \E r \in {Service_get(collection, id)} :
            tasks' = [tasks EXCEPT ![t] = Call("Service.get", id, EmptyDict, r.out, r.val)]
    /\ UNCHANGED <<collection, next_oid, clock, unique_fields, page_model>>

CallServiceSearch(t) ==
    /\ Ready(t)
    /\ \E filter \in Filters :
        \E r \in {Service_search(collection, filter)} :
            tasks' = [tasks EXCEPT ![t] = Call("Service.search", 0, filter, r.out, r.val)]
    /\ UNCHANGED <<collection, next_oid, clock, unique_fields, page_model>>

CallRepositoryGet(t) ==
    /\ Ready(t)
    /\ \E id \in Oids :
        tasks' = [tasks EXCEPT ![t] = Call("Repository.get", id, EmptyDict, "ok",
                                           Repository_get(collection, id))]
    /\ UNCHANGED <<collection, next_oid, clock, unique_fields, page_model>>

CallRepositorySearch(t) ==
    /\ Ready(t)
    /\ \E filter \in Filters :
        tasks' = [tasks EXCEPT ![t] = Call("Repository.search", 0, filter, "ok",
                                           Repository_search(collection, filter))]
    /\ UNCHANGED <<collection, next_oid, clock, unique_fields, page_model>>

CallRepositoryDelete(t) ==
    /\ Ready(t)
    /\ \E id \in Oids :
        \E r \in {Repository_delete(collection, id)} :
            /\ collection' = r.coll
            /\ tasks' = [tasks EXCEPT ![t] =
                            Call("Repository.delete", id, EmptyDict, "ok", r.ret)]
    /\ UNCHANGED <<next_oid, clock, unique_fields, page_model>>

\* PaginationModel(total_count, total_pages, page, size, data): the root
\* validator runs on construction; size 0 with a positive total_count divides
\* by zero
BuildPaginationModel ==
    \E total_count \in 0..MaxCount, size \in 0..MaxPageSize,
       given \in {0, 1, MaxCount}, page \in {1, 2} :
        /\ page_model' =
              IF size = 0 /\ total_count > 0
              THEN [total_count |-> total_count, size |-> size, page |-> page,
                    given |-> given, total_pages |-> given,
                    out |-> "ZeroDivisionError"]
              ELSE [total_count |-> total_count, size |-> size, page |-> page,
                    given |-> given, total_pages |-> paginate(total_count, size),
                    out |-> "ok"]
        /\ UNCHANGED <<collection, next_oid, clock, unique_fields, tasks>>

\* the service used by a single caller, one call after another
Next ==
    \/ Tick
    \/ \E t \in Sequential : CallServiceCreate(t)
    \/ \E t \in Sequential : ServiceCreate_search(t)
    \/ \E t \in Sequential : RepositoryCreate_insert_one(t)
    \/ \E t \in Sequential : RepositoryCreate_get(t)
    \/ \E t \in Sequential : CallServiceUpdate(t)
    \/ \E t \in Sequential : ServiceUpdate_get(t)
    \/ \E t \in Sequential : ServiceUpdate_search(t)
    \/ \E t \in Sequential : RepositoryUpdate_update_one(t)
    \/ \E t \in Sequential : RepositoryUpdate_get(t)
    \/ \E t \in Sequential : CallServiceDelete(t)
    \/ \E t \in Sequential : ServiceDelete_get(t)

Spec == Init /\ [][Next]_vars

\* the repository used directly by a single caller, next to the service's
\* read operations
InitRepo == Init /\ unique_fields = {"email"}

NextRepo ==
    \/ \E t \in Sequential : CallRepositoryCreate(t)
    \/ \E t \in Sequential : RepositoryCreate_insert_one(t)
    \/ \E t \in Sequential : RepositoryCreate_get(t)
    \/ \E t \in Sequential : CallRepositoryUpdate(t)
    \/ \E t \in Sequential : RepositoryUpdate_update_one(t)
    \/ \E t \in Sequential : RepositoryUpdate_get(t)
    \/ \E t \in Sequential : CallRepositoryDelete(t)
    \/ \E t \in Sequential : CallRepositoryGet(t)
    \/ \E t \in Sequential : CallRepositorySearch(t)
    \/ \E t \in Sequential : CallRepositoryList(t)
    \/ \E t \in Sequential : RepositoryList_count_documents(t)
    \/ \E t \in Sequential : RepositoryList_to_list(t)
    \/ \E t \in Sequential : CallServiceGet(t)
    \/ \E t \in Sequential : CallServiceSearch(t)

SpecRepo == InitRepo /\ [][NextRepo]_vars

\* the pagination envelope built on inputs drawn from bounded sets
NextPage == BuildPaginationModel

SpecPage == InitRepo /\ [][NextPage]_vars

\* ---- state machine: nested documents ------------------------------------
\* the extra filters the nested operations are called with (none, or one on a
\* field of the parent)
NestedFilters == {EmptyDict, [email |-> "a"]}

\* the limits nested_list is called with; 0 stands for no limit
NestedLimits == {0, 1}

RECURSIVE total_nested(_)
total_nested(coll) ==
    IF Len(coll) = 0 THEN 0
    ELSE Len(array_of(Head(coll), NestedField)) + total_nested(Tail(coll))

\* each nested method awaits the store once
CallNestedCreate(t) ==
    /\ Ready(t)
    /\ \E main_doc_id \in ServiceOids, data \in NestedData :
        \E r \in {nested_create(collection, main_doc_id, NestedField, data, clock)} :
            /\ r.ret # Absent => total_nested(collection) < MaxNested
            /\ collection' = r.coll
            /\ tasks' = [tasks EXCEPT ![t] =
                            Call("Repository.nested_create", main_doc_id, data, "ok",
                                 r.ret)]
    /\ UNCHANGED <<next_oid, clock, unique_fields, page_model>>

\* upsert is left at its default, False
CallNestedUpdate(t) ==
    /\ Ready(t)
    /\ \E main_doc_id \in ServiceOids, nested_doc_id \in NestedIds,
          update \in NestedUpdates, filter_ \in NestedFilters :
        \E r \in {nested_update(collection, main_doc_id, nested_doc_id, NestedField,
                                update, filter_, clock)} :
            /\ collection' = r.coll
            /\ tasks' = [tasks EXCEPT ![t] =
                            Call("Repository.nested_update", main_doc_id,
                                 [nested_doc_id |-> nested_doc_id, update |-> update,
                                  filter |-> filter_, upsert |-> FALSE], "ok", r.ret)]
    /\ UNCHANGED <<next_oid, clock, unique_fields, page_model>>

CallNestedRemove(t) ==
    /\ Ready(t)
    /\ \E main_doc_id \in ServiceOids, nested_doc_id \in NestedIds,
          filter_ \in NestedFilters :
        \E r \in {nested_remove(collection, main_doc_id, nested_doc_id, filter_,
                                NestedField)} :
            /\ collection' = r.coll
            /\ tasks' = [tasks EXCEPT ![t] =
                            Call("Repository.nested_remove", main_doc_id,
                                 [nested_doc_id |-> nested_doc_id, filter |-> filter_],
                                 "ok", r.ret)]
    /\ UNCHANGED <<next_oid, clock, unique_fields, page_model>>

CallNestedList(t) ==
    /\ Ready(t)
    /\ \E main_doc_id \in ServiceOids, limit_ \in NestedLimits :
        \E r \in {nested_list(collection, main_doc_id, NestedField, limit_, clock)} :
            tasks' = [tasks EXCEPT ![t] =
                         Call("Repository.nested_list", main_doc_id,
                              [limit |-> limit_], r.out, r.val)]
    /\ UNCHANGED <<collection, next_oid, clock, unique_fields, page_model>>

CallNestedCount(t) ==
    /\ Ready(t)
    /\ \E main_doc_id \in ServiceOids :
        \E r \in {nested_count(collection, main_doc_id, NestedField)} :
            tasks' = [tasks EXCEPT ![t] =
                         Call("Repository.nested_count", main_doc_id, EmptyDict,
                              r.out, r.val)]
    /\ UNCHANGED <<collection, next_oid, clock, unique_fields, page_model>>

\* parents created through the service, their arrays handled by the
\* repository, by a single caller
NextNested ==
    \/ \E t \in Sequential : CallServiceCreate(t)
    \/ \E t \in Sequential : ServiceCreate_search(t)
    \/ \E t \in Sequential : RepositoryCreate_insert_one(t)
    \/ \E t \in Sequential : RepositoryCreate_get(t)
    \/ \E t \in Sequential : CallNestedCreate(t)
    \/ \E t \in Sequential : CallNestedUpdate(t)
    \/ \E t \in Sequential : CallNestedRemove(t)
    \/ \E t \in Sequential : CallNestedList(t)
    \/ \E t \in Sequential : CallNestedCount(t)

SpecNested == InitRepo /\ [][NextNested]_vars

\* ---- concurrent callers -----------------------------------------------------
\* two coroutines on one event loop: each gives up control at its awaits, so
\* the other's store operations can fall between its own

\* creates and deletes side by side
NextRace ==
    \/ \E t \in Tasks : CallServiceCreate(t)
    \/ \E t \in Tasks : ServiceCreate_search(t)
    \/ \E t \in Tasks : RepositoryCreate_insert_one(t)
    \/ \E t \in Tasks : RepositoryCreate_get(t)
    \/ \E t \in Tasks : CallServiceDelete(t)
    \/ \E t \in Tasks : ServiceDelete_get(t)
    \/ \E t \in Tasks : CallRepositoryDelete(t)

SpecRace == InitRepo /\ [][NextRace]_vars

\* creates, updates and deletes side by side
NextRaceUpdate ==
    \/ \E t \in Tasks : CallServiceCreate(t)
    \/ \E t \in Tasks : ServiceCreate_search(t)
    \/ \E t \in Tasks : RepositoryCreate_insert_one(t)
    \/ \E t \in Tasks : RepositoryCreate_get(t)
    \/ \E t \in Tasks : CallServiceUpdate(t)
    \/ \E t \in Tasks : ServiceUpdate_get(t)
    \/ \E t \in Tasks : ServiceUpdate_search(t)
    \/ \E t \in Tasks : RepositoryUpdate_update_one(t)
    \/ \E t \in Tasks : RepositoryUpdate_get(t)
    \/ \E t \in Tasks : CallRepositoryDelete(t)

SpecRaceUpdate == InitRepo /\ [][NextRaceUpdate]_vars

\* ---- properties ----------------------------------------------------------
\* the call of the single caller: pending while it runs, else the one that
\* returned last
last == tasks[1]

\* the collection as it was when that call was made
Before == IF last.pc \in {"idle", "done"} THEN collection ELSE last.before

\* the step is the return of a call of operation op to the single caller
IsCall(op) == last'.pc = "done" /\ last'.op = op /\ UNCHANGED <<clock, page_model>>

\* the stored documents
Docs(coll) == {coll[i] : i \in 1..Len(coll)}

\* the stored document with identity id (there is at most one)
DocOf(coll, id) == CHOOSE d \in Docs(coll) : d._id = id

Exists(coll, id) == \E d \in Docs(coll) : d._id = id

\* the value a request carries for a field: the value set, else None
ValueOn(inst, k) == IF k \in DOMAIN inst THEN inst[k] ELSE None

\* the identities of the records holding the request's unique-field values
Holders(coll, inst, uf) ==
    {d._id : d \in {e \in Docs(coll) : \A k \in uf : e[k] = ValueOn(inst, k)}}

\* a returned entity is the stored document: same identity, same fields
SameEntity(entity, doc) ==
    /\ entity # Absent
    /\ entity.id = doc._id
    /\ \A k \in (DOMAIN doc) \ {"_id"} : entity[k] = doc[k]

\* no two stored records share the values of the unique fields
NoDuplicates(coll, uf) ==
    \A i, j \in 1..Len(coll) : (\A k \in uf : coll[i][k] = coll[j][k]) => i = j

\* C1: with unique fields declared, Service.update of an existing record fails
\* with BadRequest and changes nothing when a record of another identity holds
\* the input's unique value, and succeeds, returning the updated record, when
\* the only record holding it is the target itself.
C1_UpdateRecheckSameRecord ==
    [][(IsCall("Service.update") /\ unique_fields # {}
            /\ Exists(Before, last'.id))
       => LET id == last'.id
              holders == Holders(Before, last'.arg, unique_fields)
          IN  /\ (holders \ {id} # {})
                    => last'.out = "BadRequest" /\ collection' = Before
              /\ (holders = {id})
                    => /\ last'.out = "ok"
                       /\ Exists(collection', id)
                       /\ SameEntity(last'.val, DocOf(collection', id))
                       /\ \A k \in DOMAIN last'.arg :
                              DocOf(collection', id)[k] = last'.arg[k]
                       /\ Len(collection') = Len(Before)]_vars

\* C1 witness: an update that names its own unique value succeeded while
\* another record is stored
C1_Witness ==
    /\ last.op = "Service.update"
    /\ last.out = "ok"
    /\ unique_fields # {}
    /\ "email" \in DOMAIN last.arg
    /\ Len(collection) = 2

\* the other case of C1: an update was refused because another record holds
\* the value
C1_WitnessConflict ==
    /\ last.op = "Service.update"
    /\ last.out = "BadRequest"
    /\ unique_fields # {}
    /\ Exists(collection, last.id)
    /\ Holders(collection, last.arg, unique_fields) \ {last.id} # {}

\* C2: with unique fields declared, Service.update of an existing record with
\* a unique value no record holds is not refused: no BadRequest, and the
\* update is applied.
C2_UpdateFreshValueAccepted ==
    [][(IsCall("Service.update") /\ unique_fields # {}
            /\ Exists(Before, last'.id)
            /\ Holders(Before, last'.arg, unique_fields) = {})
       => /\ last'.out # "BadRequest"
          /\ \A k \in DOMAIN last'.arg :
                 DocOf(collection', last'.id)[k] = last'.arg[k]]_vars

\* C3: with unique fields declared, Service.create inserts exactly one record
\* carrying the input's values when no stored record matches the input's
\* unique values, fails with BadRequest leaving the collection unchanged when
\* one matches, and so no two stored records ever share their unique values.
C3_CreateEnforcesUniqueness ==
    /\ [](unique_fields # {} => NoDuplicates(collection, unique_fields))
    /\ [][(IsCall("Service.create") /\ unique_fields # {})
          => IF Holders(Before, last'.arg, unique_fields) = {}
             THEN /\ last'.out = "ok"
                  /\ Len(collection') = Len(Before) + 1
                  /\ SubSeq(collection', 1, Len(Before)) = Before
                  /\ \A k \in Fields :
                         collection'[Len(collection')][k] = ValueOn(last'.arg, k)
                  /\ SameEntity(last'.val, collection'[Len(collection')])
             ELSE /\ last'.out = "BadRequest"
                  /\ collection' = Before]_vars

\* C3 witness: a create was refused while the value it carries is stored, and
\* two records with distinct unique values are stored
C3_Witness ==
    /\ last.op = "Service.create"
    /\ last.out = "BadRequest"
    /\ unique_fields # {}
    /\ Len(collection) = 2
    /\ Holders(collection, last.arg, unique_fields) # {}

\* C4: the identity and the creation timestamp of a stored entity never
\* change: every record present before and after a step keeps its place's
\* identity and its created_at.
C4_IdentityAndCreatedAtImmutable ==
    [][/\ Len(collection') >= Len(collection)
          => \A i \in 1..Len(collection) : collection'[i]._id = collection[i]._id
       /\ \A d \in Docs(collection) :
              Exists(collection', d._id)
                  => DocOf(collection', d._id).created_at = d.created_at]_vars

\* the identity half of C4 alone
C4_IdentityImmutable ==
    [][Len(collection') >= Len(collection)
          => \A i \in 1..Len(collection) : collection'[i]._id = collection[i]._id]_vars

\* C5: a successful Service.update is a partial merge: every stored field the
\* input does not set keeps its stored value and every field it sets takes the
\* input's value.
C5_UpdateIsPartialMerge ==
    [][(IsCall("Service.update") /\ last'.out = "ok")
       => LET before == DocOf(Before, last'.id)
              after == DocOf(collection', last'.id)
          IN  /\ \A k \in (DOMAIN before) \ (DOMAIN last'.arg) : after[k] = before[k]
              /\ \A k \in DOMAIN last'.arg : after[k] = last'.arg[k]]_vars

\* C6: Service.delete of an existing record ends with the record gone and
\* every other record kept; of a missing record it fails with NotFound and
\* leaves the collection unchanged.
C6_ServiceDeleteRemoves ==
    [][IsCall("Service.delete")
       => IF Exists(Before, last'.id)
          THEN /\ last'.out = "ok"
               /\ ~Exists(collection', last'.id)
               /\ collection' = SelectSeq(Before, LAMBDA d : d._id # last'.id)
          ELSE /\ last'.out = "NotFound"
               /\ collection' = Before]_vars

\* the missing-record half of C6 alone
C6_ServiceDeleteNotFound ==
    [][(IsCall("Service.delete") /\ ~Exists(Before, last'.id))
       => last'.out = "NotFound" /\ collection' = Before]_vars

\* C7: Repository.delete returns true iff it removed exactly one record: it
\* removes the record with the identity and no other, and a second delete of
\* the same identity right after a true one returns false and changes nothing.
C7_RepositoryDeleteOnce ==
    [][IsCall("Repository.delete")
       => LET id == last'.id
          IN  /\ last'.val = Exists(collection, id)
              /\ collection' = SelectSeq(collection, LAMBDA d : d._id # id)
              /\ Len(collection) - Len(collection') = (IF last'.val THEN 1 ELSE 0)
              /\ (last.op = "Repository.delete" /\ last.id = id /\ last.val)
                    => (~last'.val /\ collection' = collection)]_vars

\* C7 witness: delete returned false for an identity the store had handed
\* out and removed before, while another record is still stored
C7_Witness ==
    /\ last.op = "Repository.delete"
    /\ last.val = FALSE
    /\ last.id < next_oid
    /\ Len(collection) >= 1

\* C8: for a missing identity or a filter nothing matches, Repository.get and
\* Repository.search return absent without raising and Service.get and
\* Service.search fail with NotFound; none of the four changes the collection.
C8_AbsenceValueThenError ==
    [][/\ IsCall("Repository.get")
          => /\ collection' = collection
             /\ ~Exists(collection, last'.id)
                   => (last'.out = "ok" /\ last'.val = Absent)
       /\ IsCall("Repository.search")
          => /\ collection' = collection
             /\ Holders(collection, last'.arg, DOMAIN last'.arg) = {}
                   => (last'.out = "ok" /\ last'.val = Absent)
       /\ IsCall("Service.get")
          => /\ collection' = collection
             /\ ~Exists(collection, last'.id) => last'.out = "NotFound"
       /\ IsCall("Service.search")
          => /\ collection' = collection
             /\ Holders(collection, last'.arg, DOMAIN last'.arg) = {}
                   => last'.out = "NotFound"]_vars

\* C8 witness: Service.search failed with NotFound on a non-empty collection
\* none of whose records matches the filter
C8_Witness ==
    /\ last.op = "Service.search"
    /\ last.out = "NotFound"
    /\ Len(collection) >= 1
    /\ Holders(collection, last.arg, DOMAIN last.arg) = {}

\* the Repository half of the same case
C8_WitnessRepository ==
    /\ last.op = "Repository.get"
    /\ last.val = Absent
    /\ Len(collection) >= 1

\* least n with n * size >= total_count
Ceil(total_count, size) ==
    CHOOSE n \in 0..total_count :
        n * size >= total_count /\ \A m \in 0..total_count : m * size >= total_count => n <= m

\* C9: for total_count >= 0 and size > 0, total_pages is 0 when total_count
\* is 0, 1 when 0 < total_count <= size, and ceil(total_count / size)
\* otherwise, whatever total_pages was passed in.
C9_TotalPages ==
    (page_model.out = "ok" /\ page_model.size > 0)
    => /\ page_model.total_count = 0 => page_model.total_pages = 0
       /\ (0 < page_model.total_count /\ page_model.total_count <= page_model.size)
             => page_model.total_pages = 1
       /\ page_model.total_count > page_model.size
             => page_model.total_pages = Ceil(page_model.total_count, page_model.size)

\* C9 witness: 11 items in pages of 5 make 3 pages although another
\* total_pages was passed in
C9_Witness ==
    /\ page_model.out = "ok"
    /\ page_model.total_count = 11
    /\ page_model.size = 5
    /\ page_model.total_pages = 3
    /\ page_model.given # 3

\* the records matching a filter, in store order
Matching(coll, filter) ==
    SelectSeq(coll, LAMBDA d : \A k \in DOMAIN filter : d[k] = filter[k])

\* C10: Repository.list with size and page given: total_count is the number
\* of matches whatever size and page are; page 1 returns the first
\* min(size, matches) matches in store order; page p > 1 returns the matches
\* at positions size*p+1 .. size*p+size; every record returned matches the
\* filter and at most size records are returned.
C10_ListPagination ==
    (last.op = "Repository.list" /\ last.pc = "done")
    => LET size == last.arg.size
           page == last.arg.page
           m == Matching(collection, last.arg.filter)
           objects == last.val.objects
           first == IF page = 1 THEN 0 ELSE size * page
       IN  /\ last.val.total_count = Len(m)
           /\ Len(objects) <= size
           /\ Len(objects) =
                 (IF Len(m) - first <= 0 THEN 0
                  ELSE IF Len(m) - first < size THEN Len(m) - first ELSE size)
           /\ \A j \in 1..Len(objects) : SameEntity(objects[j], m[first + j])
           /\ \A j \in 1..Len(objects) :
                  \A k \in DOMAIN last.arg.filter : objects[j][k] = last.arg.filter[k]

\* C10 witness: page 2 of size 1 returned the third of three matches
C10_Witness ==
    /\ last.op = "Repository.list"
    /\ last.pc = "done"
    /\ last.arg.page = 2
    /\ last.arg.size = 1
    /\ Len(last.val.objects) = 1
    /\ last.val.total_count = 3
    /\ last.val.objects[1].id = collection[3]._id

\* the call names a parent that passes the filter and holds the element
HoldsElement(coll, main_doc_id, filter_, nested_doc_id) ==
    \E d \in Docs(coll) :
        /\ d._id = main_doc_id
        /\ \A k \in DOMAIN filter_ : d[k] = filter_[k]
        /\ NestedField \in DOMAIN d
        /\ \E j \in 1..Len(d[NestedField]) : d[NestedField][j]._id = nested_doc_id

\* the array a stored parent holds (empty when the field is missing)
ItemsOf(coll, main_doc_id) ==
    IF NestedField \in DOMAIN DocOf(coll, main_doc_id)
    THEN DocOf(coll, main_doc_id)[NestedField] ELSE <<>>

\* C11: nested_remove returns true exactly when an element with identity
\* nested_id was removed from the matched parent's field, false when nothing
\* matched, leaving the collection unchanged; after a true result the field
\* holds no element with that identity and every other element in order.
C11_NestedRemoveReportsRemoval ==
    [][IsCall("Repository.nested_remove")
       => LET id == last'.id
              nid == last'.arg.nested_doc_id
              removed == HoldsElement(collection, id, last'.arg.filter, nid)
          IN  /\ last'.val = removed
              /\ ~removed => collection' = collection
              /\ last'.val
                    => /\ Exists(collection', id)
                       /\ ItemsOf(collection', id)
                              = SelectSeq(ItemsOf(collection, id), LAMBDA e : e._id # nid)]_vars

\* the store effect of C11 alone: a matched call removes the elements with the
\* identity and keeps the others in order, an unmatched call changes nothing
C11_NestedRemoveEffect ==
    [][IsCall("Repository.nested_remove")
       => LET id == last'.id
              nid == last'.arg.nested_doc_id
          IN  IF HoldsElement(collection, id, last'.arg.filter, nid)
              THEN /\ ItemsOf(collection', id)
                          = SelectSeq(ItemsOf(collection, id), LAMBDA e : e._id # nid)
                   /\ \A d \in Docs(collection) : d._id # id => d \in Docs(collection')
                   /\ Len(collection') = Len(collection)
              ELSE collection' = collection]_vars

\* C12: nested_update changes only the targeted fields of the first element
\* of the parent's array whose identity is nested_id: every other element,
\* every other field of that element, every other field of the parent and
\* every other document stay as they were; when nothing matches and no upsert
\* is asked for it returns absent and changes nothing.
C12_NestedUpdateTouchesOneElement ==
    [][IsCall("Repository.nested_update")
       => LET id == last'.id
              nid == last'.arg.nested_doc_id
              update == last'.arg.update
          IN  IF HoldsElement(collection, id, last'.arg.filter, nid)
              THEN LET before == DocOf(collection, id)
                       after == DocOf(collection', id)
                       x == CHOOSE j \in 1..Len(before[NestedField]) :
                                /\ before[NestedField][j]._id = nid
                                /\ \A k \in 1..(j - 1) : before[NestedField][k]._id # nid
                   IN  /\ Len(collection') = Len(collection)
                       /\ \A i \in 1..Len(collection) :
                              collection[i]._id # id => collection'[i] = collection[i]
                       /\ DOMAIN after = DOMAIN before
                       /\ \A k \in (DOMAIN before) \ {NestedField} : after[k] = before[k]
                       /\ Len(after[NestedField]) = Len(before[NestedField])
                       /\ \A j \in 1..Len(before[NestedField]) :
                              j # x => after[NestedField][j] = before[NestedField][j]
                       /\ DOMAIN after[NestedField][x] = DOMAIN before[NestedField][x]
                       /\ \A k \in DOMAIN before[NestedField][x] :
                              after[NestedField][x][k] =
                                  (IF k \in DOMAIN update THEN update[k]
                                   ELSE before[NestedField][x][k])
              ELSE ~last'.arg.upsert
                      => (last'.val = Absent /\ collection' = collection)]_vars

\* C12 witness: of two elements with the same identity in one parent the
\* first carries the update and the second does not, next to another document
C12_Witness ==
    /\ last.op = "Repository.nested_update"
    /\ last.val # Absent
    /\ Len(collection) = 2
    /\ Exists(collection, last.id)
    /\ Len(ItemsOf(collection, last.id)) = 2
    /\ ItemsOf(collection, last.id)[1]._id = last.arg.nested_doc_id
    /\ ItemsOf(collection, last.id)[2]._id = last.arg.nested_doc_id
    /\ ItemsOf(collection, last.id)[1].val = last.arg.update.val
    /\ ItemsOf(collection, last.id)[2].val # last.arg.update.val

\* the other case of C12: nothing matched, absent was returned
C12_WitnessNoMatch ==
    /\ last.op = "Repository.nested_update"
    /\ last.val = Absent
    /\ Exists(collection, last.id)
    /\ Len(ItemsOf(collection, last.id)) >= 1

\* the unwind/group pipeline yields nothing for the parent: no document has
\* the identity, or its array field is missing or empty
YieldsNothing(coll, main_doc_id) ==
    \/ ~Exists(coll, main_doc_id)
    \/ ItemsOf(coll, main_doc_id) = <<>>

\* C13: when no document has identity parent_id, or the parent's array field
\* is missing or empty, nested_list returns an empty sequence and nested_count
\* returns 0, neither raising an error.
C13_NestedEmptyWithoutError ==
    /\ (last.op = "Repository.nested_list" /\ YieldsNothing(collection, last.id))
          => (last.out = "ok" /\ last.val = <<>>)
    /\ (last.op = "Repository.nested_count" /\ YieldsNothing(collection, last.id))
          => (last.out = "ok" /\ last.val = 0)

\* the other side of C13: on a parent holding elements both calls return
\* without an error, the count being the length of the array
C13_NestedNonEmpty ==
    /\ (last.op = "Repository.nested_list" /\ ~YieldsNothing(collection, last.id))
          => (last.out = "ok" /\ Len(last.val) >= 1)
    /\ (last.op = "Repository.nested_count" /\ ~YieldsNothing(collection, last.id))
          => (last.out = "ok" /\ last.val = Len(ItemsOf(collection, last.id)))

\* coroutine t made a Service.create call that returned a record
Created(t) ==
    tasks[t].pc = "done" /\ tasks[t].op = "Service.create" /\ tasks[t].out = "ok"

\* C14: the uniqueness pre-check of create is not atomic with the insert: the
\* search step decides on the store as it is at that moment (BadRequest exactly
\* when a record with the unique value is stored then), and the insert step
\* stores the record whatever the store holds by then; so two creates for the
\* same unique value can both pass and both insert.
C14_PreCheckAdvisory ==
    [][\A t \in Tasks :
          /\ (tasks[t].pc = "create.search" /\ tasks'[t].pc # "create.search")
                => /\ tasks'[t].out = "BadRequest"
                        <=> Holders(collection, tasks[t].arg, unique_fields) # {}
                   /\ tasks'[t].out # "BadRequest" => tasks'[t].pc = "create.insert_one"
                   /\ collection' = collection
          /\ (tasks[t].pc = "create.insert_one" /\ tasks'[t].pc # "create.insert_one")
                => /\ Len(collection') = Len(collection) + 1
                   /\ collection'[Len(collection')]._id = tasks'[t].inserted_id
                   /\ collection'[Len(collection')].email = tasks[t].arg.email
                   /\ SubSeq(collection', 1, Len(collection)) = collection
          /\ (tasks[t].pc = "create.get" /\ tasks'[t].pc # "create.get")
                => (tasks'[t].out = "ok"
                        <=> Exists(collection, tasks[t].inserted_id))]_vars

\* both creates asked for the same unique value, both returned a record, and
\* the store holds the two records with that value
C14_Witness ==
    /\ Created(1) /\ Created(2)
    /\ tasks[1].arg.email = tasks[2].arg.email
    /\ tasks[1].val.id # tasks[2].val.id
    /\ {tasks[1].val.id, tasks[2].val.id}
          \subseteq Holders(collection, tasks[1].arg, unique_fields)
    /\ ~NoDuplicates(collection, unique_fields)

\* the pre-check does work when the creates do not overlap
C14_WitnessRefused ==
    /\ Created(1)
    /\ tasks[2].pc = "done" /\ tasks[2].op = "Service.create"
    /\ tasks[2].out = "BadRequest"
    /\ tasks[1].arg.email = tasks[2].arg.email

\* what else the interleaving of awaits brings, each reachable with two callers:
\* a create whose record was deleted before its re-read ends in AttributeError
RaceCreateReadsNone ==
    \E t \in Tasks : /\ tasks[t].op = "Service.create"
                     /\ tasks[t].out = "AttributeError"

\* a delete fails with NotFound for a record that was stored when it was called
RaceDeleteNotFound ==
    \E t \in Tasks :
        /\ tasks[t].op = "Service.delete" /\ tasks[t].pc = "delete.get"
        /\ tasks[t].depth >= 1
        /\ ~Exists(collection, tasks[t].id)

\* an update returns the value another update wrote (under SpecRaceUpdate)
RaceUpdateReturnsOther ==
    \E t \in Tasks :
        /\ tasks[t].op = "Service.update" /\ tasks[t].out = "ok"
        /\ "name" \in DOMAIN tasks[t].arg
        /\ tasks[t].val.name # tasks[t].arg.name

====
